---- MODULE Spec2Model ----
(***************************************************************************)
(* Model of sqlalchemy_zdb/compiler.py: the compiler from SQLAlchemy       *)
(* expression trees to ZomboDB query text.                                 *)
(*                                                                         *)
(* Text is a sequence of one-character strings, so that escaping, quoting  *)
(* and joining are computed character by character as the Python code      *)
(* computes them.  An expression-tree node is a record with a field cls    *)
(* naming its Python class and the attributes the compiler reads.          *)
(* A call's outcome is a record [err, out]: err is the message of the      *)
(* exception raised ("" when the call returns) and out the returned text.  *)
(***************************************************************************)
EXTENDS Integers, Sequences, FiniteSets, TLC

VARIABLES
    element,   \* the argument of the most recent call
    pc,        \* which entry point ran last ("idle" before the first call)
    result,    \* outcome of the most recent call
    frame,     \* local variables of the most recent call when it returned or raised
    hist,      \* history: the first compile call of the behaviour and what followed
    re_pattern_type  \* the interpreter: whether module re has the attribute _pattern_type
                     \* (Python up to 3.6 has it, Python from 3.7 on does not)

vars == <<element, pc, result, frame, hist, re_pattern_type>>

----------------------------------------------------------------------------
(* Bounds of the model. *)

\* longest input string given to escape_tokens
MaxLen == 4
\* largest offset / limit value given to compile_limit
MaxInt == 10
\* most top-level clauses of a zdb_raw_query element
MaxClauses == 2
\* most clauses given to zdb_count / zdb_json_query
MaxArgs == 3
\* longest str inside the JSON values given to zdb_count / zdb_json_query
MaxJsonLen == 2

----------------------------------------------------------------------------
(* Text helpers: Python str operations on character sequences. *)

\* all sequences over S of length at most n
SeqsUpTo(S, n) == UNION {[1..k -> S] : k \in 0..n}

RECURSIVE Replace(_, _, _)
\* str.replace(old, new) for a one-character old
Replace(s, old, new) ==
    IF s = <<>> THEN <<>>
    ELSE (IF Head(s) = old THEN new ELSE <<Head(s)>>) \o Replace(Tail(s), old, new)

RECURSIVE Join(_, _)
\* sep.join(parts)
Join(sep, parts) ==
    IF parts = <<>> THEN <<>>
    ELSE IF Len(parts) = 1 THEN parts[1]
    ELSE parts[1] \o sep \o Join(sep, Tail(parts))

DigitChars == <<"0", "1", "2", "3", "4", "5", "6", "7", "8", "9">>

RECURSIVE NatDigits(_)
NatDigits(n) ==
    IF n < 10 THEN <<DigitChars[n + 1]>>
    ELSE NatDigits(n \div 10) \o <<DigitChars[(n % 10) + 1]>>

\* "%d" % n and str(n) for an int n
IntText(n) == IF n < 0 THEN <<"-">> \o NatDigits(-n) ELSE NatDigits(n)

----------------------------------------------------------------------------
(* escape_tokens *)

escape_tokens_list ==
    << "'", "\"", ":", "*", "~", "?",
       "!", "%", "&", "(", ")", ",",
       "<", "=", ">", "[", "]", "^",
       "{", "}", " ", "\r", "\n",
       "\t", "\f" >>

RECURSIVE escape_loop(_, _)
\* the for loop of escape_tokens from token k on: one replace per token, in list order
escape_loop(inp, k) ==
    IF k > Len(escape_tokens_list) THEN inp
    ELSE escape_loop(Replace(inp, escape_tokens_list[k], <<"\\", escape_tokens_list[k]>>), k + 1)

\* a faulty variant of strip_apostrophes: the apostrophes are kept
strip_apostrophes_kept(inp) == inp

\* inp.replace("'", "")
strip_apostrophes(inp) == Replace(inp, "'", <<>>)

\* a faulty variant of escape_tokens: the loop over the reserved characters is skipped
escape_tokens_unescaped(inp) == strip_apostrophes(inp)

escape_tokens(inp) == escape_loop(strip_apostrophes(inp), 1)

----------------------------------------------------------------------------
(* Text constants of the compiler's output syntax and of the sample trees. *)

posts == <<"p", "o", "s", "t", "s">>
users == <<"u", "s", "e", "r", "s">>
title == <<"t", "i", "t", "l", "e">>
uname == <<"n", "a", "m", "e">>
hello_world == <<"h", "e", "l", "l", "o", " ", "w", "o", "r", "l", "d">>
t_and == <<" ", "a", "n", "d", " ">>
t_or == <<" ", "o", "r", " ">>
t_null == <<"N", "U", "L", "L">>
t_true == <<"t", "r", "u", "e">>
t_false == <<"f", "a", "l", "s", "e">>
\* the Python literal "\"%%s\"" of compile_column_clause: no % operator is
\* applied to it, so both percent signs are part of the returned text
t_placeholder == <<"\"", "%", "%", "s", "\"">>
t_replace_open == <<"r", "e", "p", "l", "a", "c", "e", "(">>
t_replace_close == <<",", " ", "'", "\"", "'", ",", " ", "'", "'", ")">>
t_arrow == <<" ", "=", "=", ">", " ">>
t_format_open == <<"f", "o", "r", "m", "a", "t", "(", "'">>
t_limit_open == <<"#", "l", "i", "m", "i", "t", "(">>
t_score == <<"_", "s", "c", "o", "r", "e">>
t_asc == <<"a", "s", "c">>
t_desc == <<"d", "e", "s", "c">>
t_count_open == <<"z", "d", "b", ".", "c", "o", "u", "n", "t", "(", "'">>
t_comma_sp == <<",", " ">>
t_quote_comma == <<"'", ",", " ">>
t_json_sep == <<"'", ",", " ", "'">>
t_count_close == <<"'", ")">>
Quoted(s) == <<"\"">> \o s \o <<"\"">>

----------------------------------------------------------------------------
(* Expression-tree nodes: what the host layer hands to the compiler. *)

\* BindParameter whose value is a str / an int / a compiled regex / a ZdbLiteral
BindStr(v) == [cls |-> "BindParameter", vtype |-> "str", value |-> v]
BindInt(n) == [cls |-> "BindParameter", vtype |-> "int", num |-> n]
BindPattern(p) == [cls |-> "BindParameter", vtype |-> "pattern", pattern |-> p]
BindLiteral(l) == [cls |-> "BindParameter", vtype |-> "ZdbLiteral", literal |-> l]
\* BindParameter whose value has an attribute table (value.table.__tablename__ = t)
BindTable(t) == [cls |-> "BindParameter", vtype |-> "table", tablename |-> t]
\* BindParameter whose value is None
BindNone == [cls |-> "BindParameter", vtype |-> "None"]
\* BindParameter whose value is an object of no class the compiler or json.dumps
\* knows (an object(), a set): no attribute table, not JSON serializable
BindOther == [cls |-> "BindParameter", vtype |-> "other"]
\* a Column of table t; annotated: it is an AnnotatedColumn; zdb: type(column) is ZdbColumn
ColumnNode(t, n, a, z) == [cls |-> "Column", table |-> t, name |-> n, annotated |-> a, zdb |-> z]
Binary(l, o, r) == [cls |-> "BinaryExpression", left |-> l, operator |-> o, right |-> r]
BoolList(o, cs) == [cls |-> "BooleanClauseList", operator |-> o, clauses |-> cs]
TextNode(t) == [cls |-> "TextClause", text |-> t]
GroupingNode(es) == [cls |-> "Grouping", element |-> es]
ZdbTableNode(t) == [cls |-> "ZdbTable", table |-> t]
TrueNode == [cls |-> "True_"]
FalseNode == [cls |-> "False_"]
NullNode == [cls |-> "Null"]
\* a clause of a class the compiler has no rule for
OtherNode == [cls |-> "Other"]

IsTableMarker(c) == c.cls = "BindParameter" /\ c.vtype = "table"

----------------------------------------------------------------------------
(* The Clause Renderer.  A rendering step returns                          *)
(*   [err, val, isint, tables, format_args]:                               *)
(* the exception message (or ""), the returned value as text, whether the  *)
(* returned Python object is an int rather than a str, and the two         *)
(* accumulators as the step left them.                                     *)

Ret(v, tables, format_args) ==
    [err |-> "", val |-> v, isint |-> FALSE, tables |-> tables, format_args |-> format_args]
RetInt(n, tables, format_args) ==
    [err |-> "", val |-> IntText(n), isint |-> TRUE, tables |-> tables, format_args |-> format_args]
Raise(msg, tables, format_args) ==
    [err |-> msg, val |-> <<>>, isint |-> FALSE, tables |-> tables, format_args |-> format_args]

\* sqlalchemy_zdb.operators.COMPARE_OPERATORS.get(op, None): found is FALSE for
\* None; isfunction tells an entry that is a rendering function from one that is
\* an infix string (syntax)
COMPARE_OPERATORS(op) ==
    CASE op = "eq" -> [found |-> TRUE, isfunction |-> FALSE, syntax |-> <<"=">>]
      [] op = "gt" -> [found |-> TRUE, isfunction |-> FALSE, syntax |-> <<">">>]
      [] op = "lt" -> [found |-> TRUE, isfunction |-> FALSE, syntax |-> <<"<">>]
      [] op = "ne" -> [found |-> TRUE, isfunction |-> TRUE, syntax |-> <<>>]
      [] OTHER -> [found |-> FALSE, isfunction |-> FALSE, syntax |-> <<>>]

\* the rendering function COMPARE_OPERATORS holds for not-equals, r being the
\* outcome of its compile_clause(right, ...): the negation form NOT name:value
negation_operator(left, r) ==
    IF r.err # "" THEN r
    ELSE Ret(<<"N", "O", "T", " ">> \o left.name \o <<":">> \o r.val, r.tables, r.format_args)

\* compiler.process(c) for a column: SQLAlchemy's rendering table.column
process(c) == c.table \o <<".">> \o c.name

\* sep.join(items) where an int among the items makes join raise TypeError
JoinItems(sep, items) ==
    IF \E k \in 1..Len(items) : items[k].isint
    THEN [err |-> "TypeError: expected str instance, int found", val |-> <<>>]
    ELSE [err |-> "", val |-> Join(sep, [k \in 1..Len(items) |-> items[k].val])]

compile_column_clause(c, tables, format_args) ==
    Ret(t_placeholder, tables,
        Append(format_args, t_replace_open \o process(c) \o t_replace_close))

RECURSIVE grouping_values(_, _, _)
\* the loop of compile_grouping from element k on, values being the list built
\* so far: elem.value is read first, so an element that is no BindParameter
\* fails with AttributeError before any type is tested
grouping_values(es, k, values) ==
    IF k > Len(es) THEN [err |-> "", values |-> values]
    ELSE IF es[k].cls # "BindParameter"
    THEN [err |-> "AttributeError: no attribute value", values |-> values]
    ELSE IF es[k].vtype = "str"
    THEN grouping_values(es, k + 1, Append(values, Quoted(es[k].value)))
    ELSE IF es[k].vtype = "int"
    THEN grouping_values(es, k + 1, Append(values, IntText(es[k].num)))
    ELSE [err |-> "Unsupported type for IN", values |-> values]

compile_grouping(c, tables, format_args) ==
    LET g == grouping_values(c.element, 1, <<>>)
    IN IF g.err # "" THEN Raise(g.err, tables, format_args)
       ELSE Ret(<<"(">> \o Join(<<",">>, g.values) \o <<")">>, tables, format_args)

RECURSIVE compile_clause(_, _, _)
RECURSIVE compile_binary_clause(_, _, _)
RECURSIVE compile_boolean_clause_list(_, _, _)
RECURSIVE compile_children(_, _, _, _, _)
RECURSIVE children_step(_, _, _, _)

\* a faulty variant of binary_tables: the comparison's table is not recorded
binary_tables_dropped(left, tables) == tables

\* tables.add(left.table.name) of compile_binary_clause
binary_tables(left, tables) == tables \cup {left.table}

\* line 52, r being the outcome of compile_clause(right, ...)
binary_result(left, syntax, r) ==
    IF r.err # "" THEN r
    ELSE Ret(left.name \o syntax \o r.val, r.tables, r.format_args)

compile_binary_clause(c, tables, format_args) ==
    IF ~(c.left.cls = "Column" /\ c.left.annotated)
    THEN Raise("Incorrect field", tables, format_args)
    ELSE IF ~COMPARE_OPERATORS(c.operator).found
    THEN Raise("Unsupported binary operator " \o c.operator, tables, format_args)
    ELSE IF COMPARE_OPERATORS(c.operator).isfunction
    THEN negation_operator(c.left,
                           compile_clause(c.right, binary_tables(c.left, tables), format_args))
    ELSE binary_result(c.left, COMPARE_OPERATORS(c.operator).syntax,
                       compile_clause(c.right, binary_tables(c.left, tables), format_args))

\* the for loop of compile_boolean_clause_list from child k on; items is the
\* list query so far, as [err, items, tables, format_args]
compile_children(cs, k, items, tables, format_args) ==
    IF k > Len(cs)
    THEN [err |-> "", items |-> items, tables |-> tables, format_args |-> format_args]
    ELSE children_step(cs, k, items, compile_clause(cs[k], tables, format_args))

\* query.append(r) for the outcome r of child k, then the rest of the loop
children_step(cs, k, items, r) ==
    IF r.err # ""
    THEN [err |-> r.err, items |-> items, tables |-> r.tables, format_args |-> r.format_args]
    ELSE compile_children(cs, k + 1, Append(items, [val |-> r.val, isint |-> r.isint]),
                          r.tables, r.format_args)

\* a faulty variant of clause_order: the children are rendered last to first
clause_order_reversed(cs) == [k \in 1..Len(cs) |-> cs[Len(cs) + 1 - k]]

\* the order in which "for _c in c.clauses" visits the children
clause_order(cs) == cs

\* line 68, joined being the outcome of _oper.join(query)
boolean_joined(q, joined) ==
    IF joined.err # "" THEN Raise(joined.err, q.tables, q.format_args)
    ELSE Ret(<<"(">> \o joined.val \o <<")">>, q.tables, q.format_args)

\* lines 61-68, q being the outcome of the loop over the children
boolean_result(operator, q) ==
    IF q.err # "" THEN Raise(q.err, q.tables, q.format_args)
    ELSE IF operator \notin {"or_", "and_"}
    THEN Raise("Unsupported boolean clause", q.tables, q.format_args)
    ELSE boolean_joined(q, JoinItems(IF operator = "or_" THEN t_or ELSE t_and, q.items))

compile_boolean_clause_list(c, tables, format_args) ==
    boolean_result(c.operator,
                   compile_children(clause_order(c.clauses), 1, <<>>, tables, format_args))

\* lines 122-123 build the tuple (str, int, re._pattern_type, ZdbLiteral) for
\* every BindParameter: where module re has no _pattern_type that raises
compile_clause(c, tables, format_args) ==
    IF c.cls = "BindParameter" /\ ~re_pattern_type
    THEN Raise("AttributeError: module 're' has no attribute '_pattern_type'",
               tables, format_args)
    ELSE IF c.cls = "BindParameter" /\ c.vtype \in {"str", "int", "pattern", "ZdbLiteral"}
    THEN CASE c.vtype = "str" -> Ret(Quoted(escape_tokens(c.value)), tables, format_args)
           [] c.vtype = "pattern" -> Ret(Quoted(c.pattern), tables, format_args)
           [] c.vtype = "ZdbLiteral" -> Ret(c.literal, tables, format_args)
           [] OTHER -> RetInt(c.num, tables, format_args)
    ELSE IF c.cls \in {"True_", "False_"}
    THEN Ret(IF c.cls = "True_" THEN t_true ELSE t_false, tables, format_args)
    ELSE IF c.cls = "TextClause" THEN Ret(c.text, tables, format_args)
    ELSE IF c.cls = "BinaryExpression" THEN compile_binary_clause(c, tables, format_args)
    ELSE IF c.cls = "BooleanClauseList" THEN compile_boolean_clause_list(c, tables, format_args)
    ELSE IF c.cls = "Column" THEN compile_column_clause(c, tables, format_args)
    ELSE IF c.cls = "Grouping" THEN compile_grouping(c, tables, format_args)
    ELSE IF c.cls = "Null" THEN Ret(t_null, tables, format_args)
    ELSE IF c.cls = "ZdbTable" THEN Ret(c.table, tables, format_args)
    ELSE Raise("Unsupported clause", tables, format_args)

----------------------------------------------------------------------------
(* compile_limit.  offset and limit are records [isint, n]: whether the    *)
(* Python object is an int, and its value.  order_by is a record with cls  *)
(* in NoneType, ZdbScore (direction), UnaryExpression (modifier, column)   *)
(* or Other.                                                               *)

IntArg(n) == [isint |-> TRUE, n |-> n]
NotAnInt == [isint |-> FALSE, n |-> 0]
NoOrder == [cls |-> "NoneType"]
ScoreOrder(d) == [cls |-> "ZdbScore", direction |-> d]
UnaryOrder(m, col) == [cls |-> "UnaryExpression", modifier |-> m, column |-> col]
OtherOrder == [cls |-> "Other"]

LimitText(column_name, direction, offset, limit) ==
    t_limit_open \o column_name \o <<" ">> \o direction \o t_comma_sp
        \o IntText(offset) \o t_comma_sp \o IntText(limit) \o <<")", " ">>

compile_limit(offset, limit, order_by) ==
    IF ~offset.isint \/ ~limit.isint
    THEN [err |-> "Expected int for zdb LIMIT offset and/or limit", out |-> <<>>]
    ELSE IF order_by.cls = "NoneType"
    THEN [err |-> "Expected UnaryExpression or ZdbScore for zdb LIMIT", out |-> <<>>]
    ELSE IF order_by.cls = "ZdbScore"
    THEN [err |-> "", out |-> LimitText(t_score, order_by.direction, offset.n, limit.n)]
    ELSE IF order_by.cls = "UnaryExpression"
    THEN IF ~order_by.column.zdb
         THEN [err |-> "Expected ZdbColumn for zdb LIMIT", out |-> <<>>]
         ELSE [err |-> "",
               out |-> LimitText(order_by.column.name,
                                 IF order_by.modifier = "asc_op" THEN t_asc ELSE t_desc,
                                 offset.n, limit.n)]
    ELSE [err |-> "Unexpected expression", out |-> <<>>]

----------------------------------------------------------------------------
(* compile_zdb_query.  element is a record [clauses, order_by, offset,     *)
(* limit]; an element without _zdb_order_by has order_by = NoOrder.        *)
(* The call returns [err, out, frame], frame being its local variables     *)
(* query, tables, format_args, limit and table when it returned or raised. *)

RawQuery(cs, ob, off, lim) == [clauses |-> cs, order_by |-> ob, offset |-> off, limit |-> lim]

NoFrame == [query |-> <<>>, tables |-> {}, format_args |-> <<>>, limit |-> <<>>, table |-> <<>>]

\* what the caller of a compile sees: the exception or the returned text
Outcome(r) == [err |-> r.err, out |-> r.out]

\* a faulty variant of new_tables: the set left by the previous call is used again
new_tables_stale == frame.tables

\* tables = set()
new_tables == {}

\* format_args = []
new_format_args == <<>>

\* a faulty variant of marker_misplaced: a table marker is accepted at any position
marker_misplaced_never(i) == FALSE

\* "if i > 0" for the clause at (1-based) position i
marker_misplaced(i) == i > 1

\* the part of one loop iteration before compile_clause:
\* [err, tables, add_to_query]
classify_clause(c, i, tables) ==
    IF c.cls = "BinaryExpression"
    THEN IF c.left.cls = "Column"
         THEN [err |-> "", tables |-> tables \cup {c.left.table}, add_to_query |-> TRUE]
         ELSE [err |-> "AttributeError: no attribute table", tables |-> tables,
               add_to_query |-> TRUE]
    ELSE IF c.cls = "BindParameter"
    THEN IF c.vtype = "str"
         THEN [err |-> "", tables |-> tables, add_to_query |-> TRUE]
         ELSE IF c.vtype = "table"
         THEN IF marker_misplaced(i)
              THEN [err |-> "Table can be specified only as first param",
                    tables |-> tables, add_to_query |-> FALSE]
              ELSE [err |-> "", tables |-> tables \cup {c.tablename},
                    add_to_query |-> FALSE]
         ELSE [err |-> "", tables |-> tables, add_to_query |-> TRUE]
    ELSE IF c.cls \in {"BooleanClauseList", "Column"}
    THEN [err |-> "", tables |-> tables, add_to_query |-> TRUE]
    ELSE [err |-> "Unsupported filter", tables |-> tables, add_to_query |-> TRUE]

RECURSIVE query_loop(_, _, _, _, _)
RECURSIVE query_classified(_, _, _, _, _)
RECURSIVE query_compiled(_, _, _, _)

\* "for i, c in enumerate(element.clauses)" from position i on, as
\* [err, query, tables, format_args]
query_loop(clauses, i, query, tables, format_args) ==
    IF i > Len(clauses)
    THEN [err |-> "", query |-> query, tables |-> tables, format_args |-> format_args]
    ELSE query_classified(clauses, i, query, format_args,
                          classify_clause(clauses[i], i, tables))

\* lines 178-179, k being the outcome of lines 159-176 for clause i
query_classified(clauses, i, query, format_args, k) ==
    IF k.err # ""
    THEN [err |-> k.err, query |-> query, tables |-> k.tables, format_args |-> format_args]
    ELSE IF ~k.add_to_query
    THEN query_loop(clauses, i + 1, query, k.tables, format_args)
    ELSE query_compiled(clauses, i, query, compile_clause(clauses[i], k.tables, format_args))

\* query.append(r) for the outcome r of clause i, then the rest of the loop
query_compiled(clauses, i, query, r) ==
    IF r.err # ""
    THEN [err |-> r.err, query |-> query, tables |-> r.tables, format_args |-> r.format_args]
    ELSE query_loop(clauses, i + 1, Append(query, [val |-> r.val, isint |-> r.isint]),
                    r.tables, r.format_args)

\* the text after "<table> ==> ", lines 194-203
inner_sql(limit, joined, format_args) ==
    IF format_args # <<>>
    THEN <<"'">> \o limit \o t_format_open \o joined \o t_quote_comma
             \o Join(t_comma_sp, format_args) \o <<")", "'">>
    ELSE <<"'">> \o limit \o joined \o <<"'">>

\* the locals of compile_zdb_query
Frame(query, tables, format_args, limit, table) ==
    [query |-> query, tables |-> tables, format_args |-> format_args, limit |-> limit,
     table |-> table]

\* lines 193-204, fr being the locals after compile_limit and joined the
\* outcome of " and ".join(query)
query_sql(fr, joined) ==
    IF joined.err # "" THEN [err |-> joined.err, out |-> <<>>, frame |-> fr]
    ELSE [err |-> "",
          out |-> fr.table \o t_arrow \o inner_sql(fr.limit, joined.val, fr.format_args),
          frame |-> fr]

\* lines 188-204, q being the outcome of the loop, table the popped table and
\* lim the outcome of compile_limit
query_limited(q, table, lim) ==
    IF lim.err # ""
    THEN [err |-> lim.err, out |-> <<>>,
          frame |-> Frame(q.query, {}, q.format_args, <<>>, table)]
    ELSE query_sql(Frame(q.query, {}, q.format_args, lim.out, table),
                   JoinItems(t_and, q.query))

\* lines 181-204, q being the outcome of the loop
query_result(el, q) ==
    IF q.err # ""
    THEN [err |-> q.err, out |-> <<>>,
          frame |-> Frame(q.query, q.tables, q.format_args, <<>>, <<>>)]
    ELSE IF q.tables = {}
    THEN [err |-> "No filters passed", out |-> <<>>,
          frame |-> Frame(q.query, q.tables, q.format_args, <<>>, <<>>)]
    ELSE IF Cardinality(q.tables) > 1
    THEN [err |-> "Different tables passed", out |-> <<>>,
          frame |-> Frame(q.query, q.tables, q.format_args, <<>>, <<>>)]
    ELSE query_limited(q, CHOOSE t \in q.tables : TRUE,
                       IF el.order_by.cls \in {"UnaryExpression", "ZdbScore"}
                       THEN compile_limit(el.offset, el.limit, el.order_by)
                       ELSE [err |-> "", out |-> <<>>])

compile_zdb_query(el) ==
    query_result(el, query_loop(el.clauses, 1, <<>>, new_tables, new_format_args))

----------------------------------------------------------------------------
(* compile_zdb_count and compile_zdb_json.  The second clause's value is a *)
(* JSON value: [jt |-> "str", s] for a str, [jt |-> "obj", k, v] for a     *)
(* dict with one str key and one str value.                                *)

JStr(s) == [jt |-> "str", s |-> s]
JObj(k, v) == [jt |-> "obj", k |-> k, v |-> v]
\* BindParameter whose value is a JSON-serialisable object
BindJson(j) == [cls |-> "BindParameter", vtype |-> "json", json |-> j]

\* the character ` (0x60): a TLA+ string literal cannot hold it, so texts hold
\* this token in its place
backtick == "U+0060"

\* characters json.dumps copies unchanged: the 93 characters from space to ~
\* but for the quotation mark and the backslash
json_unescaped ==
    { " ", "!", "#", "$", "%", "&", "'", "(", ")", "*", "+", ",", "-", ".", "/", "0",
      "1", "2", "3", "4", "5", "6", "7", "8", "9", ":", ";", "<", "=", ">", "?", "@",
      "A", "B", "C", "D", "E", "F", "G", "H", "I", "J", "K", "L", "M", "N", "O", "P",
      "Q", "R", "S", "T", "U", "V", "W", "X", "Y", "Z", "[", "]", "^", "_", backtick, "a",
      "b", "c", "d", "e", "f", "g", "h", "i", "j", "k", "l", "m", "n", "o", "p", "q",
      "r", "s", "t", "u", "v", "w", "x", "y", "z", "{", "|", "}", "~" }

\* json.dumps's escape of one character (ensure_ascii): the quotation mark, the
\* backslash and the control characters get a backslash escape.  Defined for
\* ASCII text with these four control characters; every other control
\* character and every non-ASCII character becomes a \uXXXX escape in the code.
json_escape_char(ch) ==
    CASE ch = "\"" -> <<"\\", "\"">>
      [] ch = "\\" -> <<"\\", "\\">>
      [] ch = "\n" -> <<"\\", "n">>
      [] ch = "\r" -> <<"\\", "r">>
      [] ch = "\t" -> <<"\\", "t">>
      [] ch = "\f" -> <<"\\", "f">>
      [] ch \in json_unescaped -> <<ch>>

RECURSIVE json_escape(_)
\* json.dumps's escaping of the characters of a str
json_escape(s) ==
    IF s = <<>> THEN <<>>
    ELSE json_escape_char(Head(s)) \o json_escape(Tail(s))

\* json.dumps(value)
json_dumps(j) ==
    IF j.jt = "str" THEN Quoted(json_escape(j.s))
    ELSE <<"{">> \o Quoted(json_escape(j.k)) \o <<":", " ">>
             \o Quoted(json_escape(j.v)) \o <<"}">>

\* query.replace("'", "''")
double_quotes(query) == Replace(query, "'", <<"'", "'">>)

\* whether json.dumps accepts the clause's value: a str, an int, None or a dict
\* do; a compiled regex, a ZdbLiteral, a mapped class (the table marker's value)
\* and an unknown object raise TypeError
json_serializable(c) == c.vtype \in {"str", "int", "None", "json"}

\* json.dumps(c.value)
json_of(c) ==
    IF c.vtype = "str" THEN json_dumps(JStr(c.value))
    ELSE IF c.vtype = "int" THEN IntText(c.num)
    ELSE IF c.vtype = "None" THEN <<"n", "u", "l", "l">>
    ELSE json_dumps(c.json)

\* lines 222-228 and 235-242, the same in both compilers: [err, table, query]
json_args(clauses, msg) ==
    IF Len(clauses) # 2 THEN [err |-> msg, table |-> <<>>, query |-> <<>>]
    ELSE IF clauses[1].cls # "BindParameter"
    THEN [err |-> "AttributeError: no attribute value", table |-> <<>>, query |-> <<>>]
    ELSE IF ~IsTableMarker(clauses[1])
    THEN [err |-> "AttributeError: no attribute table", table |-> <<>>, query |-> <<>>]
    ELSE IF clauses[2].cls # "BindParameter"
    THEN [err |-> "AttributeError: no attribute value", table |-> clauses[1].tablename,
          query |-> <<>>]
    ELSE IF ~json_serializable(clauses[2])
    THEN [err |-> "TypeError: not JSON serializable", table |-> clauses[1].tablename,
          query |-> <<>>]
    ELSE [err |-> "", table |-> clauses[1].tablename,
          query |-> double_quotes(json_of(clauses[2]))]

compile_zdb_count(clauses) ==
    LET a == json_args(clauses, "Incorrect params, must be zdb_count(table, query)")
    IN IF a.err # "" THEN [err |-> a.err, out |-> <<>>]
       ELSE [err |-> "",
             out |-> t_count_open \o a.table \o t_json_sep \o a.query \o t_count_close]

compile_zdb_json(clauses) ==
    LET a == json_args(clauses, "Incorrect params, must be zdb_json_query(table, dict)")
    IN IF a.err # "" THEN [err |-> a.err, out |-> <<>>]
       ELSE [err |-> "", out |-> a.table \o t_arrow \o <<"'">> \o a.query \o <<"'">>]

----------------------------------------------------------------------------
(* The inputs the specifications draw from. *)

\* characters given to escape_tokens: reserved ones, apostrophe, backslash, ordinary
EscapeAlphabet == {"'", "\\", ":", " ", "\"", "a", "b"}
EscapeInputs == SeqsUpTo(EscapeAlphabet, MaxLen)

c_title == ColumnNode(posts, title, TRUE, TRUE)
c_name == ColumnNode(users, uname, TRUE, TRUE)
\* a plain Column of a Table: not annotated, not a ZdbColumn
c_plain == ColumnNode(posts, title, FALSE, FALSE)

CmpPosts == Binary(c_title, "eq", BindStr(hello_world))
CmpUsers == Binary(c_name, "gt", BindInt(7))
CmpColumn == Binary(c_title, "eq", c_name)
\* operator.add has no entry in COMPARE_OPERATORS; the token is what %s prints
CmpBadOp == Binary(c_title, "<built-in function add>", BindStr(hello_world))
CmpNe == Binary(c_title, "ne", BindStr(<<"x">>))
CmpPlainLeft == Binary(c_plain, "eq", BindStr(hello_world))
CmpNoColumn == Binary(BindStr(title), "eq", BindStr(hello_world))

\* BooleanClauseLists of two children, in both orders and with both operators
Kids == {c_name, CmpPosts}
FlatLists == {BoolList(o, <<a, b>>) : o \in {"and_", "or_"}, a \in Kids, b \in Kids}

\* deeper nestings and the remaining node classes
DeepLists ==
    { BoolList("and_", <<c_name, BoolList("or_", <<CmpPosts, c_title>>)>>),
      BoolList("and_", <<CmpPosts, BoolList("or_", <<BoolList("and_", <<CmpUsers>>)>>)>>),
      BoolList("or_", <<BoolList("and_", <<c_title, CmpColumn>>), c_title>>),
      BoolList("xor", <<CmpPosts>>),
      BoolList("and_", <<c_title, CmpBadOp>>),
      BoolList("and_", <<CmpPosts, BindTable(posts)>>),
      BoolList("and_", <<CmpPosts, BindInt(7)>>),
      BoolList("and_", <<BindPattern(<<"a", ".", "*">>), BindLiteral(<<"x", ":", "1">>),
                        TextNode(<<"a", ":", "b">>), ZdbTableNode(posts), TrueNode,
                        FalseNode, NullNode,
                        GroupingNode(<<BindStr(<<"a">>), BindInt(12)>>)>>),
      BoolList("and_", <<GroupingNode(<<BindStr(<<"a">>), BindOther>>), OtherNode>>),
      BoolList("and_", <<GroupingNode(<<BindStr(<<"a">>), NullNode>>)>>) }

TopClauses ==
    { BindTable(posts), BindTable(users), BindStr(hello_world), BindInt(7), BindNone, BindOther,
      TextNode(<<"a", ":", "b">>), c_title, c_name,
      CmpPosts, CmpUsers, CmpColumn, CmpBadOp, CmpNe, CmpPlainLeft, CmpNoColumn }
        \cup FlatLists \cup DeepLists

\* an order / limit attached to the element: by score, by a plain column
LimitSpecs ==
    { [order_by |-> ScoreOrder(t_desc), offset |-> IntArg(0), limit |-> IntArg(10)],
      [order_by |-> UnaryOrder("asc_op", c_plain), offset |-> IntArg(0), limit |-> IntArg(10)] }

Unlimited(cs) == RawQuery(cs, NoOrder, IntArg(0), IntArg(0))

\* every clause list without order / limit; with order / limit a single clause,
\* alone or after a table marker
Elements ==
    {Unlimited(cs) : cs \in SeqsUpTo(TopClauses, MaxClauses)}
        \cup {RawQuery(<<c>>, l.order_by, l.offset, l.limit) :
                 c \in TopClauses, l \in LimitSpecs}
        \cup {RawQuery(<<BindTable(posts), c>>, l.order_by, l.offset, l.limit) :
                 c \in TopClauses, l \in LimitSpecs}

\* the elements of the behaviours with several calls: one or two clauses
TrackedClauses ==
    {c_title, CmpPosts, CmpUsers, BoolList("and_", <<c_title, CmpBadOp>>)}
TrackedElements ==
    {Unlimited(<<>>)} \cup {Unlimited(<<a>>) : a \in TrackedClauses}
        \cup {Unlimited(<<a, b>>) : a \in TrackedClauses, b \in TrackedClauses}

LimitValues == {IntArg(n) : n \in -2..MaxInt} \cup {NotAnInt}
OrderSpecs ==
    { NoOrder, OtherOrder, ScoreOrder(t_asc), ScoreOrder(t_desc),
      UnaryOrder("asc_op", c_title), UnaryOrder("desc_op", c_name),
      UnaryOrder("asc_op", c_plain) }
LimitInputs == [offset : LimitValues, limit : LimitValues, order_by : OrderSpecs]

\* an ordinary character, the apostrophe, and three that json.dumps escapes
JsonAlphabet == {"a", "'", "\"", "\\", "\n"}
JsonStrings == SeqsUpTo(JsonAlphabet, MaxJsonLen)
JsonClauses ==
    {BindStr(v) : v \in JsonStrings}
        \cup {BindJson(JObj(<<"q">>, v)) : v \in JsonStrings}
        \cup {BindStr(<<"a", backtick>>), BindJson(JObj(<<"q">>, <<backtick, "'">>))}
        \cup {BindTable(posts), BindTable(users), BindInt(12), BindNone, BindOther,
              BindPattern(<<"a">>), c_title}
JsonInputs ==
    {<<a, b>> : a \in JsonClauses, b \in JsonClauses}
        \cup SeqsUpTo({BindTable(posts), BindJson(JObj(<<"q">>, <<"a">>))}, MaxArgs)

----------------------------------------------------------------------------
(* State machine. *)

NoResult == [err |-> "not called", out |-> <<>>]
NoHist == [set |-> FALSE, first |-> <<>>, outcome |-> NoResult, prev_failed |-> FALSE]

\* one compile of the raw query drawn by Init
CompileZdbQuery ==
    /\ pc = "ready"
    /\ result' = Outcome(compile_zdb_query(element))
    /\ frame' = compile_zdb_query(element).frame
    /\ pc' = "done"
    /\ UNCHANGED <<element, hist, re_pattern_type>>

Init ==
    /\ element \in Elements
    /\ pc = "ready"
    /\ result = NoResult
    /\ frame = NoFrame
    /\ hist = NoHist
    /\ re_pattern_type \in BOOLEAN

Next == CompileZdbQuery

Spec == Init /\ [][Next]_vars

\* one more compile call, of any tracked element, after whatever calls came before;
\* hist remembers the first call of the behaviour and its outcome
CompileAgain ==
    \E el \in TrackedElements :
        /\ element' = el
        /\ result' = Outcome(compile_zdb_query(el))
        /\ frame' = compile_zdb_query(el).frame
        /\ pc' = "done"
        /\ hist' = IF hist.set
                   THEN [hist EXCEPT !.prev_failed = (result.err # "")]
                   ELSE [set |-> TRUE, first |-> el, outcome |-> result',
                         prev_failed |-> FALSE]
        /\ UNCHANGED re_pattern_type

InitStateless ==
    /\ element = Unlimited(<<>>)
    /\ pc = "idle"
    /\ result = NoResult
    /\ frame = NoFrame
    /\ hist = NoHist
    /\ re_pattern_type \in BOOLEAN

SpecStateless == InitStateless /\ [][CompileAgain]_vars

CompileLimit ==
    /\ pc = "ready"
    /\ result' = compile_limit(element.offset, element.limit, element.order_by)
    /\ pc' = "done"
    /\ UNCHANGED <<element, frame, hist, re_pattern_type>>

InitLimit ==
    /\ element \in LimitInputs
    /\ pc = "ready"
    /\ result = NoResult
    /\ frame = NoFrame
    /\ hist = NoHist
    /\ re_pattern_type \in BOOLEAN

SpecLimit == InitLimit /\ [][CompileLimit]_vars

EscapeTokens ==
    /\ pc = "ready"
    /\ result' = [err |-> "", out |-> escape_tokens(element)]
    /\ pc' = "done"
    /\ UNCHANGED <<element, frame, hist, re_pattern_type>>

InitEscape ==
    /\ element \in EscapeInputs
    /\ pc = "ready"
    /\ result = NoResult
    /\ frame = NoFrame
    /\ hist = NoHist
    /\ re_pattern_type \in BOOLEAN

SpecEscape == InitEscape /\ [][EscapeTokens]_vars

\* in SpecJson result holds the outcome of each of the two compilers
CompileZdbCount ==
    /\ result.count = NoResult
    /\ result' = [result EXCEPT !.count = compile_zdb_count(element)]
    /\ pc' = "done"
    /\ UNCHANGED <<element, frame, hist, re_pattern_type>>

CompileZdbJson ==
    /\ result.json = NoResult
    /\ result' = [result EXCEPT !.json = compile_zdb_json(element)]
    /\ pc' = "done"
    /\ UNCHANGED <<element, frame, hist, re_pattern_type>>

InitJson ==
    /\ element \in JsonInputs
    /\ pc = "ready"
    /\ result = [count |-> NoResult, json |-> NoResult]
    /\ frame = NoFrame
    /\ hist = NoHist
    /\ re_pattern_type \in BOOLEAN

NextJson == CompileZdbCount \/ CompileZdbJson

SpecJson == InitJson /\ [][NextJson]_vars

----------------------------------------------------------------------------
(* Vocabulary of the properties. *)

Done == pc = "done"
Returned == result.err = ""
Chars(s) == {s[i] : i \in 1..Len(s)}
HasPrefix(s, p) == Len(s) >= Len(p) /\ SubSeq(s, 1, Len(p)) = p
\* number of positions of s at which p occurs
CountOcc(s, p) ==
    Cardinality({i \in 1..Len(s) : i + Len(p) - 1 <= Len(s) /\ SubSeq(s, i, i + Len(p) - 1) = p})
Vals(items) == [k \in 1..Len(items) |-> items[k].val]
\* the rendering of a clause on its own
Val(c) == compile_clause(c, {}, <<>>).val

RECURSIVE ComparisonTables(_)
\* the tables named by the FieldComparisons of a clause, at the top or nested
\* in BooleanCombinations
ComparisonTables(c) ==
    IF c.cls = "BinaryExpression"
    THEN IF c.left.cls = "Column" THEN {c.left.table} ELSE {}
    ELSE IF c.cls = "BooleanClauseList"
    THEN UNION {ComparisonTables(c.clauses[k]) : k \in 1..Len(c.clauses)}
    ELSE {}

\* the tables a raw query names: its comparisons' and its leading table marker's
NamedTables(el) ==
    UNION {ComparisonTables(el.clauses[k]) : k \in 1..Len(el.clauses)}
        \cup (IF Len(el.clauses) > 0 /\ IsTableMarker(el.clauses[1])
              THEN {el.clauses[1].tablename} ELSE {})

RECURSIVE InOrderColumns(_)
RECURSIVE InOrderColumnsOfList(_)
\* the bare columns of a clause, left to right
InOrderColumns(c) ==
    IF c.cls = "Column" THEN <<c>>
    ELSE IF c.cls = "BinaryExpression" THEN InOrderColumns(c.right)
    ELSE IF c.cls = "BooleanClauseList" THEN InOrderColumnsOfList(c.clauses)
    ELSE <<>>
InOrderColumnsOfList(cs) ==
    IF cs = <<>> THEN <<>> ELSE InOrderColumns(Head(cs)) \o InOrderColumnsOfList(Tail(cs))

\* the extraction expression pushed for a bare column
Extraction(c) == t_replace_open \o c.table \o <<".">> \o c.name \o t_replace_close

MarkerAfterFirst(el) == \E i \in 2..Len(el.clauses) : IsTableMarker(el.clauses[i])
FirstLateMarker(el) ==
    CHOOSE i \in 2..Len(el.clauses) :
        /\ IsTableMarker(el.clauses[i])
        /\ \A j \in 2..(i - 1) : ~IsTableMarker(el.clauses[j])
MisplacedMessage == "Table can be specified only as first param"

----------------------------------------------------------------------------
(* Properties of compile_zdb_query, checked under Spec. *)

\* C1: a raw query whose comparisons (top-level or nested in boolean lists)
\* and leading table marker name no table or several tables does not compile;
\* a compile that returns named exactly one table, the one popped from the
\* table set, and the output starts with that table followed by " ==> ".
C1_SingleTable ==
    Done =>
        /\ Cardinality(NamedTables(element)) # 1 => ~Returned
        /\ Returned =>
              /\ NamedTables(element) = {frame.table}
              /\ HasPrefix(result.out, frame.table \o t_arrow)

\* C1 witness: a table marker of one table in front of a boolean list with a
\* comparison of another table: the call fails on the two tables.
C1_Witness ==
    /\ Done
    /\ result.err = "Different tables passed"
    /\ Len(element.clauses) = 2
    /\ IsTableMarker(element.clauses[1])
    /\ element.clauses[2].cls = "BooleanClauseList"
    /\ NamedTables(element) = {posts, users}

\* C2 (as claimed): a compile with no rendered clause fails: the empty clause
\* list with the empty-filter error, a lone leading table marker with an
\* error, and no returned output was built from zero rendered clauses.
C2_EmptyFilterFails ==
    Done =>
        /\ element.clauses = <<>> => result.err = "No filters passed"
        /\ (Len(element.clauses) = 1 /\ IsTableMarker(element.clauses[1])) => ~Returned
        /\ Returned => frame.query # <<>>

\* C3 (as claimed): with format arguments the output is
\* <table> ==> 'format('<limit><clauses>', <args>)', the #limit prefix inside
\* the first argument of format; without, <table> ==> '<limit><clauses>'.
C3_FormatShape ==
    (Done /\ Returned) =>
        LET joined == Join(t_and, Vals(frame.query))
        IN result.out = frame.table \o t_arrow \o
              (IF frame.format_args # <<>>
               THEN <<"'">> \o t_format_open \o frame.limit \o joined \o t_quote_comma
                        \o Join(t_comma_sp, frame.format_args) \o <<")", "'">>
               ELSE <<"'">> \o frame.limit \o joined \o <<"'">>)

\* C4 (as claimed): a table marker after the first position makes the call
\* fail with "Table can be specified only as first param" whatever the other
\* clauses are.
C4_MisplacedAlwaysThatMessage ==
    (Done /\ MarkerAfterFirst(element)) => result.err = MisplacedMessage

\* C4 (amended): a table marker at the first position adds its table to the
\* table set and renders nothing (the rendered clauses are exactly the
\* renderings of the clauses after it); a table marker at a later position
\* makes the call fail, with "Table can be specified only as first param"
\* when the clauses before it are processed without error.
C4_TableMarkerPlacement ==
    Done =>
        /\ (Len(element.clauses) > 0 /\ IsTableMarker(element.clauses[1]) /\ Returned) =>
              /\ frame.table = element.clauses[1].tablename
              /\ Len(frame.query) = Len(element.clauses) - 1
              /\ \A k \in 1..Len(frame.query) :
                    frame.query[k].val = Val(element.clauses[k + 1])
        /\ MarkerAfterFirst(element) =>
              /\ ~Returned
              /\ query_loop(SubSeq(element.clauses, 1, FirstLateMarker(element) - 1),
                            1, <<>>, {}, <<>>).err = ""
                    => result.err = MisplacedMessage

\* C4 witness: a table marker in second position after a comparison that
\* renders: the call fails with the misplaced-marker message.
C4_Witness ==
    /\ Done
    /\ Len(element.clauses) = 2
    /\ element.clauses[1].cls = "BinaryExpression"
    /\ IsTableMarker(element.clauses[2])
    /\ result.err = MisplacedMessage

HelloQuery == Unlimited(<<CmpPosts>>)

\* C7 (as claimed): the raw query over posts with the single comparison
\* title = "hello world" compiles to posts ==> '(title="hello world")'; stated
\* for the interpreters on which line 123 can be evaluated.
C7_ExampleAsClaimed ==
    (Done /\ element = HelloQuery /\ re_pattern_type) =>
        /\ Returned
        /\ result.out = posts \o t_arrow
              \o <<"'", "(">> \o title \o <<"=">> \o Quoted(hello_world) \o <<")", "'">>

\* C7 (amended): that raw query compiles to posts ==> 'title="hello\ world"':
\* no parentheses around a top-level comparison, the column name directly
\* followed by the operator syntax, and the text between double quotes with
\* its space escaped by a backslash.  That is the outcome where module re has
\* _pattern_type; where it has not, rendering the bound text raises
\* AttributeError and nothing is returned.
C7_ExampleRendering ==
    (Done /\ element = HelloQuery) =>
        IF re_pattern_type
        THEN /\ Returned
             /\ result.out = posts \o t_arrow \o <<"'">> \o title \o <<"=">>
                   \o <<"\"", "h", "e", "l", "l", "o", "\\", " ", "w", "o", "r", "l", "d", "\"">>
                   \o <<"'">>
        ELSE result.err = "AttributeError: module 're' has no attribute '_pattern_type'"

\* C7 witness: the example query has been compiled and returned.
C7_Witness == Done /\ element = HelloQuery /\ re_pattern_type /\ Returned

\* C9: in a compile that returns, the format arguments are the extraction
\* expressions of the tree's bare columns in left-to-right order, the filter
\* text holds as many placeholders as there are format arguments, the
\* rendered top-level clauses are the clauses' renderings in input order, and
\* a boolean list of two children A, B renders as (A and B) / (A or B).
C9_OrderAndAlignment ==
    (Done /\ Returned) =>
        LET cols == InOrderColumnsOfList(element.clauses)
            rest == IF Len(element.clauses) > 0 /\ IsTableMarker(element.clauses[1])
                    THEN Tail(element.clauses) ELSE element.clauses
        IN /\ frame.format_args = [i \in 1..Len(cols) |-> Extraction(cols[i])]
           /\ CountOcc(Join(t_and, Vals(frame.query)), t_placeholder) = Len(frame.format_args)
           /\ Vals(frame.query) = [k \in 1..Len(rest) |-> Val(rest[k])]
           /\ \A k \in 1..Len(rest) :
                 (rest[k].cls = "BooleanClauseList" /\ Len(rest[k].clauses) = 2) =>
                     frame.query[k].val =
                         <<"(">> \o Val(rest[k].clauses[1])
                             \o (IF rest[k].operator = "and_" THEN t_and ELSE t_or)
                             \o Val(rest[k].clauses[2]) \o <<")">>

\* C9 witness: a returned compile of a nested boolean list with two bare
\* columns of different tables, hence two different format arguments.
C9_Witness ==
    /\ Done
    /\ Returned
    /\ Len(frame.format_args) = 2
    /\ frame.format_args[1] # frame.format_args[2]
    /\ \E k \in 1..Len(element.clauses) :
          /\ element.clauses[k].cls = "BooleanClauseList"
          /\ \E j \in 1..Len(element.clauses[k].clauses) :
                element.clauses[k].clauses[j].cls = "BooleanClauseList"

----------------------------------------------------------------------------
(* Statelessness, checked under SpecStateless. *)

\* C10: whatever calls came before, successful or failed, compiling the tree
\* of the behaviour's first call again has the outcome of that first call.
C10_Stateless ==
    (Done /\ hist.set /\ element = hist.first) => result = hist.outcome

\* C10 witness: the first tree compiled again right after a failed call, and
\* it returns as it did the first time.
C10_Witness ==
    /\ Done
    /\ hist.set
    /\ element = hist.first
    /\ hist.prev_failed
    /\ Returned

----------------------------------------------------------------------------
(* compile_limit, checked under SpecLimit. *)

ValidOrder(o) ==
    \/ o.cls = "ZdbScore"
    \/ o.cls = "UnaryExpression" /\ o.column.zdb

\* C5 (as claimed): compile_limit returns only for a non-negative int offset,
\* a non-negative int limit and an order that is a score direction or a
\* direction over a ZdbColumn, and then returns
\* "#limit(<column> <asc|desc>, <offset>, <limit>) ".
C5_LimitValidation ==
    Done =>
        LET valid == /\ element.offset.isint /\ element.offset.n >= 0
                     /\ element.limit.isint /\ element.limit.n >= 0
                     /\ ValidOrder(element.order_by)
            o == element.order_by
        IN /\ Returned <=> valid
           /\ Returned =>
                 result.out =
                     t_limit_open
                         \o (IF o.cls = "ZdbScore" THEN t_score ELSE o.column.name)
                         \o <<" ">>
                         \o (IF o.cls = "ZdbScore" THEN o.direction
                             ELSE IF o.modifier = "asc_op" THEN t_asc ELSE t_desc)
                         \o t_comma_sp \o IntText(element.offset.n)
                         \o t_comma_sp \o IntText(element.limit.n) \o <<")", " ">>

----------------------------------------------------------------------------
(* escape_tokens, checked under SpecEscape. *)

Reserved == Chars(escape_tokens_list)
Alphanumeric == {"a", "b"}
ReservedAt(s) == {i \in 1..Len(s) : s[i] \in Reserved}

\* C6 (as claimed): the output has no apostrophe, every reserved character of
\* the output is preceded by exactly one backslash, the empty string escapes
\* to itself and an alphanumeric string is unchanged.
C6_ExactlyOneBackslash ==
    Done =>
        /\ "'" \notin Chars(result.out)
        /\ \A i \in ReservedAt(result.out) :
              /\ i > 1 /\ result.out[i - 1] = "\\"
              /\ i > 2 => result.out[i - 2] # "\\"
        /\ element = <<>> => result.out = <<>>
        /\ Chars(element) \subseteq Alphanumeric => result.out = element

\* C6 (amended): the output has no apostrophe, every reserved character of
\* the output is immediately preceded by a backslash, one backslash is
\* inserted per reserved character of the input without its apostrophes, and
\* when the input holds no backslash every reserved character of the output
\* is preceded by exactly one; the empty string escapes to itself and an
\* alphanumeric string is unchanged.
C6_EscapeInsertsOneBackslash ==
    Done =>
        /\ "'" \notin Chars(result.out)
        /\ \A i \in ReservedAt(result.out) : i > 1 /\ result.out[i - 1] = "\\"
        /\ Len(result.out) =
              Len(element) - CountOcc(element, <<"'">>)
                  + Cardinality({i \in ReservedAt(element) : element[i] # "'"})
        /\ "\\" \notin Chars(element) =>
              \A i \in ReservedAt(result.out) : i > 2 => result.out[i - 2] # "\\"
        /\ element = <<>> => result.out = <<>>
        /\ Chars(element) \subseteq Alphanumeric => result.out = element

\* C6 witness: an input with an apostrophe, a backslash and a colon has been
\* escaped.
C6_Witness == Done /\ {"'", "\\", ":"} \subseteq Chars(element)

----------------------------------------------------------------------------
(* compile_zdb_count and compile_zdb_json, checked under SpecJson. *)

RECURSIVE NoLoneQuote(_)
\* every run of single quotes has even length
NoLoneQuote(s) ==
    IF s = <<>> THEN TRUE
    ELSE IF Head(s) # "'" THEN NoLoneQuote(Tail(s))
    ELSE Len(s) >= 2 /\ s[2] = "'" /\ NoLoneQuote(Tail(Tail(s)))

RECURSIVE Halved(_)
\* a text of doubled single quotes with every pair made one quote again
Halved(s) ==
    IF s = <<>> THEN <<>>
    ELSE IF Head(s) = "'" THEN <<"'">> \o Halved(Tail(Tail(s)))
    ELSE <<Head(s)>> \o Halved(Tail(s))

\* a structured query object: a bound dict
StructuredQuery(c) == c.cls = "BindParameter" /\ c.vtype = "json"

\* exactly two clauses, a table reference followed by a structured query object
ValidJsonArgs(cs) ==
    /\ Len(cs) = 2
    /\ IsTableMarker(cs[1])
    /\ StructuredQuery(cs[2])

\* the text between a prefix and a suffix of out
Between(out, prefix, suffix) == SubSeq(out, Len(prefix) + 1, Len(out) - Len(suffix))

\* C8 (as claimed): each of the two compilers fails unless it is given two
\* clauses, a table reference followed by a structured query object (a dict),
\* and returns for two such clauses; the returned
\* texts are zdb.count('<table>', '<jsonText>') and <table> ==> '<jsonText>'
\* with the same jsonText, which is the serialisation with every single quote
\* doubled, so it holds no lone single quote.
C8_JsonCompilers ==
    LET countPrefix == t_count_open \o element[1].tablename \o t_json_sep
        jsonPrefix == element[1].tablename \o t_arrow \o <<"'">>
        countText == Between(result.count.out, countPrefix, t_count_close)
        jsonText == Between(result.json.out, jsonPrefix, <<"'">>)
    IN /\ result.count # NoResult =>
             /\ result.count.err = "" <=> ValidJsonArgs(element)
             /\ result.count.err = "" =>
                   /\ result.count.out = countPrefix \o countText \o t_count_close
                   /\ NoLoneQuote(countText)
                   /\ Halved(countText) = json_of(element[2])
       /\ result.json # NoResult =>
             /\ result.json.err = "" <=> ValidJsonArgs(element)
             /\ result.json.err = "" =>
                   /\ result.json.out = jsonPrefix \o jsonText \o <<"'">>
                   /\ NoLoneQuote(jsonText)
                   /\ Halved(jsonText) = json_of(element[2])
       /\ (result.count # NoResult /\ result.json # NoResult /\ result.count.err = "") =>
             countText = jsonText

====
